---- MODULE Spec2Model ----
(***************************************************************************)
(* Model of rust_core/src/lib.rs: the dynamic fee function, the            *)
(* process-wide fee cache behind a mutex, and the arbitrage scan.          *)
(*                                                                         *)
(* Numbers.  The code computes in f64.  The model computes the same        *)
(* expressions exactly, in fixed point:                                    *)
(*   - a price is an integer number of 1/Unit, Unit = SubUnits * KeyScale, *)
(*     so that the price grid is SubUnits times finer than the cache key   *)
(*     grid (several prices share one key, as for f64 prices);             *)
(*   - a fee is an integer number of 1/(100 * Unit), which represents      *)
(*     0.03 * (1 - |2p - 1|) exactly as 3 * (Unit - |2P - Unit|);          *)
(*   - a total cost is a pair <<whole, frac>>: whole in 1/Unit and         *)
(*     0 <= frac < 100 * Unit in 1/(100 * Unit * Unit).                    *)
(* NaN is the one f64 value kept apart (every comparison with it is false).*)
(*                                                                         *)
(* Concurrency.  Every thread runs one call at a time; a step of the model *)
(* is either thread-local code, a lock acquisition, or a critical section  *)
(* up to and including the drop of its guard.                              *)
(***************************************************************************)
EXTENDS Integers, Sequences, FiniteSets, TLC

\* lib.rs:25  price * 1_000_000.0
KeyScale == 1000000

\* price grid points per cache key step
SubUnits == 4

\* the callers (threads of the host process)
Threads == {1, 2}

\* the price 1.0
Unit == SubUnits * KeyScale

\* f64::NAN, kept outside the fixed-point range
NaN == 0 - (1000 * KeyScale)

\* the lock is free
NoThread == 0

VARIABLES FEE_CACHE, lock, poisoned, th, firstFee

vars == <<FEE_CACHE, lock, poisoned, th, firstFee>>

----------------------------------------------------------------------------
\* f64 helpers

\* f64::abs (NaN stays NaN)
Abs(x) == IF x = NaN THEN NaN ELSE IF x < 0 THEN 0 - x ELSE x

\* f64::max: if one argument is NaN the other is returned
Max(a, b) == IF a = NaN THEN b ELSE IF b = NaN THEN a ELSE IF a < b THEN b ELSE a

\* a < b on f64: false when either is NaN
Lt(a, b) == a # NaN /\ b # NaN /\ a < b

\* a > b on f64: false when either is NaN
Gt(a, b) == a # NaN /\ b # NaN /\ a > b

\* <<q, r>> with a * b = q * d + r and 0 <= r < d, for b >= 0, without
\* leaving 32 bits (the product of a price and a fee does not fit); the half
\* product h is bound by a set so that it is computed once
RECURSIVE MulDivMod(_, _, _)
MulDivMod(a, b, d) ==
    IF b = 0 THEN <<0, 0>>
    ELSE CHOOSE qr \in
            {LET t == 2 * h[2] + (IF b % 2 = 1 THEN a ELSE 0)
             IN  <<2 * h[1] + (t \div d), t % d>> :
                h \in {MulDivMod(a, b \div 2, d)}} : TRUE

----------------------------------------------------------------------------
\* Option<HashMap<u64, f64>>: a record; the map is a set of <<key, fee>> pairs
\* with at most one pair per key

CacheNone == [is_some |-> FALSE, map |-> {}]

CacheSome(m) == [is_some |-> TRUE, map |-> m]

MapKeys(m) == {e[1] : e \in m}

MapGet(m, k) == (CHOOSE e \in m : e[1] = k)[2]

\* (mutant) the insertion starts a new map
MapInsertFresh(m, k, v) == {<<k, v>>}

\* HashMap::insert: replaces the value of a key already present
MapInsert(m, k, v) == {e \in m : e[1] # k} \cup {<<k, v>>}

----------------------------------------------------------------------------
\* calculate_fee, the pure parts

\* (mutant) only the lower end is checked
OutOfRangeLow(price) == Lt(price, 0)

\* lib.rs:18  price < 0.0 || price > 1.0
OutOfRange(price) == Lt(price, 0) \/ Gt(price, Unit)

\* (mutant) the cast without the rounding: the key is cut off
CacheKeyTrunc(price) ==
    IF price = NaN \/ price < 0 THEN 0 ELSE price \div SubUnits

\* lib.rs:25  (price * 1_000_000.0).round() as u64
\* round is half away from zero; the cast sends NaN and negatives to 0
CacheKey(price) ==
    IF price = NaN \/ price < 0 THEN 0
    ELSE (2 * price + SubUnits) \div (2 * SubUnits)

\* lib.rs:44  0.001, in fee units
FeeFloor == Unit \div 10

\* (mutant) the absolute value is left out
CertaintySigned(price) == IF price = NaN THEN NaN ELSE 2 * price - Unit

\* lib.rs:43  (2.0 * price - 1.0).abs()
Certainty(price) == IF price = NaN THEN NaN ELSE Abs(2 * price - Unit)

\* (mutant) the floor is left out
FeeNoFloor(price) ==
    IF price = NaN THEN NaN ELSE 3 * (Unit - Certainty(price))

\* lib.rs:44  (0.001_f64).max(0.03 * (1.0 - certainty))
Fee(price) ==
    LET certainty == Certainty(price)
    IN  Max(FeeFloor, IF certainty = NaN THEN NaN ELSE 3 * (Unit - certainty))

----------------------------------------------------------------------------
\* the cost model and the decision of find_arb

\* frac counts 1/(FracBase * Unit)
FracBase == 100 * Unit

\* lib.rs:63, lib.rs:103
\* yes_price + no_price + (yes_price * yes_fee) + (no_price * no_fee)
TotalCost(yes_price, no_price, yes_fee, no_fee) ==
    LET a == MulDivMod(yes_price, yes_fee, FracBase)
        b == MulDivMod(no_price, no_fee, FracBase)
        r == a[2] + b[2]
    IN  <<yes_price + no_price + a[1] + b[1] + (r \div FracBase), r % FracBase>>

\* (mutant) min_profit is ignored
IsArbNoMargin(total_cost, min_profit) == total_cost[1] < Unit

\* lib.rs:106  total_cost < (1.0 - min_profit); min_profit counts 1/Unit,
\* and 0 <= frac < FracBase, so only the whole part decides
IsArb(total_cost, min_profit) == total_cost[1] < Unit - min_profit

----------------------------------------------------------------------------
\* serde_json::Value, as far as find_arb reads it

Null == [t |-> "null"]

Num(n) == [t |-> "num", n |-> n]

Str == [t |-> "str"]

Arr(a) == [t |-> "arr", a |-> a]

Obj(o) == [t |-> "obj", o |-> o]

\* an order-book text: well-formed JSON with a value, or not JSON at all
Text(v) == [valid |-> TRUE, value |-> v]

NotJson == [valid |-> FALSE, value |-> Null]

\* lib.rs:90  serde_json::from_str(..).unwrap_or(Value::Null)
ParseJson(text) == IF text.valid THEN text.value ELSE Null

\* v["key"]: Null unless v is an object holding the key
Field(v, key) == IF v.t = "obj" /\ key \in DOMAIN v.o THEN v.o[key] ELSE Null

\* (mutant) every index reads the first element
ItemFirst(v, i) == IF v.t = "arr" /\ 1 <= Len(v.a) THEN v.a[1] ELSE Null

\* v[i]: Null unless v is an array longer than i
Item(v, i) == IF v.t = "arr" /\ i + 1 <= Len(v.a) THEN v.a[i + 1] ELSE Null

\* (mutant) a missing price is taken as 0.5
DefaultPriceHalf == Unit \div 2

\* lib.rs:94  unwrap_or(1.0): the price find_arb takes when the field is
\* no number
DefaultPrice == Unit

\* (mutant) a number outside [0, 1] is taken as missing
AskPriceChecked(v, i) ==
    LET f == Field(Item(Field(v, "rewards"), i), "price")
    IN  IF f.t = "num" /\ 0 <= f.n /\ f.n <= Unit THEN f.n ELSE DefaultPrice

\* lib.rs:94, lib.rs:95  v["rewards"][i]["price"].as_f64().unwrap_or(1.0)
AskPrice(v, i) ==
    LET f == Field(Item(Field(v, "rewards"), i), "price")
    IN  IF f.t = "num" THEN f.n ELSE DefaultPrice

----------------------------------------------------------------------------
\* the inputs the callers draw from

\* arguments of calculate_fee: 0.0, 0.4 and 0.5 each with its grid neighbour
\* (same cache key), 0.6, 1.0, two values out of range, and NaN
FeePrices == {0, (2 * Unit) \div 5, (2 * Unit) \div 5 + 1,
              Unit \div 2, Unit \div 2 + 1,
              (3 * Unit) \div 5, Unit,
              0 - (Unit \div 10), Unit + (Unit \div 10), NaN}

\* arguments of calculate_total_cost
CostPairs == {<<Unit \div 2, Unit \div 2>>,
              <<(2 * Unit) \div 5, (11 * Unit) \div 20>>,
              <<(2 * Unit) \div 5, Unit + (Unit \div 10)>>,
              <<0 - (Unit \div 10), Unit \div 2>>}

Rewards(yes, no) == Text(Obj([rewards |-> Arr(<<yes, no>>)]))

Quote(price) == Obj([price |-> Num(price)])

\* order-book texts handed to find_arb
Orderbooks == <<
    Rewards(Quote((2 * Unit) \div 5), Quote((11 * Unit) \div 20)),
    Rewards(Quote(Unit \div 2), Quote(Unit \div 2)),
    Text(Obj([markets |-> Arr(<< >>)])),
    NotJson,
    Rewards(Obj([price |-> Str]), Quote((2 * Unit) \div 5)),
    Text(Obj([rewards |-> Arr(<<Quote((2 * Unit) \div 5)>>)])),
    Rewards(Quote((3 * Unit) \div 2), Quote((2 * Unit) \div 5)),
    Rewards(Obj([size |-> Num(Unit)]), Quote(0 - (Unit \div 5)))
>>

\* min_profit: 0.0 and 0.05
MinProfits == {0, Unit \div 20}

\* arguments of find_arb: a text (by its place in Orderbooks) and
\* min_profit; once a negative min_profit, -2.0
ArbInputs == ((1..Len(Orderbooks)) \X MinProfits) \cup {<<3, 0 - 2 * Unit>>}

\* what callers that run side by side draw from: fewer values, so that
\* every interleaving of two callers can be enumerated
SharedFeePrices == {Unit \div 2, Unit \div 2 + 1, Unit + (Unit \div 10), NaN}

SharedCostPairs == {<<Unit \div 2, Unit + (Unit \div 10)>>}

SharedArbInputs == {<<3, 0>>}

\* arguments of calculate_fee next to each other on the price grid: 0.5 and
\* the two grid points above it
GridPrices == {Unit \div 2, Unit \div 2 + 1, Unit \div 2 + 2}

----------------------------------------------------------------------------
\* a thread: the call it runs (op, arguments), where it is (pc), the locals
\* of the call, and what its last call returned (ret)

Idle == [op |-> "none", pc |-> "idle", leg |-> 0,
         orderbook_json |-> 0, min_profit |-> 0,
         yes_price |-> 0, no_price |-> 0,
         price |-> 0, cache_key |-> 0, fee |-> 0,
         yes_fee |-> 0, no_fee |-> 0,
         ret |-> [status |-> "none", val |-> << >>]]

Ok(val) == [status |-> "ok", val |-> val]

\* a panic, which pyo3 hands to the caller as PanicException
Panic == [status |-> "panic", val |-> << >>]

\* PyValueError "Price must be between 0.0 and 1.0, got {price}"
Err(price) == [status |-> "err", val |-> <<price>>]

Init ==
    /\ FEE_CACHE = CacheNone
    /\ lock = NoThread
    /\ poisoned = FALSE
    /\ th = [t \in Threads |-> Idle]
    /\ firstFee = [p \in {} |-> 0]

\* the call is over: the locals of calculate_fee are gone
Finish(r, ret) ==
    [r EXCEPT !.pc = "idle", !.leg = 0, !.cache_key = 0, !.fee = 0,
              !.price = IF r.op = "calculate_fee" THEN r.price ELSE 0,
              !.ret = ret]

\* what the caller of calculate_fee does with its result
\*   calculate_fee itself: returns it                       (lib.rs:35, 52)
\*   first `?`: an Err returns, an Ok is yes_fee            (lib.rs:59, 98)
\*   second `?`: an Err returns, an Ok is no_fee, then the
\*   rest of the function runs                              (lib.rs:60-65, 99-110)
AfterFee(r, res) ==
    IF r.op = "calculate_fee" THEN Finish(r, res)
    ELSE IF res.status = "err" THEN Finish(r, res)
    ELSE IF r.leg = 0
    THEN [r EXCEPT !.yes_fee = res.val[1], !.leg = 1, !.price = r.no_price,
                   !.cache_key = 0, !.fee = 0, !.pc = "cf_validate"]
    ELSE LET no_fee == res.val[1]
             total_cost == TotalCost(r.yes_price, r.no_price, r.yes_fee, no_fee)
             out == IF r.op = "calculate_total_cost"
                    THEN Ok(<<r.yes_fee, no_fee, total_cost>>)
                    ELSE IF IsArb(total_cost, r.min_profit)
                         THEN Ok(<<TRUE, r.yes_price, r.no_price>>)
                         ELSE Ok(<<FALSE, 0, 0>>)
         IN  [Finish(r, out) EXCEPT !.no_fee = no_fee]

\* the first fee calculate_fee returned for a price since the cache was
\* last cleared (history, not program state)
Record(price, res) ==
    IF res.status = "ok" /\ price \notin DOMAIN firstFee
    THEN [p \in DOMAIN firstFee \cup {price} |->
             IF p = price THEN res.val[1] ELSE firstFee[p]]
    ELSE firstFee

----------------------------------------------------------------------------
\* the callers start their calls

CallCalculateFee(t, prices) ==
    /\ th[t].pc = "idle"
    /\ \E price \in prices :
          th' = [th EXCEPT ![t] = [Idle EXCEPT !.op = "calculate_fee",
                                               !.price = price,
                                               !.pc = "cf_validate"]]
    /\ UNCHANGED <<FEE_CACHE, lock, poisoned, firstFee>>

\* lib.rs:59  the function starts with the call for the yes leg
CallCalculateTotalCost(t, pairs) ==
    /\ th[t].pc = "idle"
    /\ \E a \in pairs :
          th' = [th EXCEPT ![t] = [Idle EXCEPT !.op = "calculate_total_cost",
                                               !.yes_price = a[1],
                                               !.no_price = a[2],
                                               !.price = a[1],
                                               !.pc = "cf_validate"]]
    /\ UNCHANGED <<FEE_CACHE, lock, poisoned, firstFee>>

CallFindArb(t, inputs) ==
    /\ th[t].pc = "idle"
    /\ \E a \in inputs :
          th' = [th EXCEPT ![t] = [Idle EXCEPT !.op = "find_arb",
                                               !.orderbook_json = a[1],
                                               !.min_profit = a[2],
                                               !.pc = "fa_parse"]]
    /\ UNCHANGED <<FEE_CACHE, lock, poisoned, firstFee>>

CallClearFeeCache(t) ==
    /\ th[t].pc = "idle"
    /\ th' = [th EXCEPT ![t] = [Idle EXCEPT !.op = "clear_fee_cache",
                                            !.pc = "cl_lock"]]
    /\ UNCHANGED <<FEE_CACHE, lock, poisoned, firstFee>>

CallGetCacheSize(t) ==
    /\ th[t].pc = "idle"
    /\ th' = [th EXCEPT ![t] = [Idle EXCEPT !.op = "get_cache_size",
                                            !.pc = "gs_lock"]]
    /\ UNCHANGED <<FEE_CACHE, lock, poisoned, firstFee>>

----------------------------------------------------------------------------
\* FEE_CACHE.lock().unwrap(): waits for the mutex; on a poisoned mutex the
\* unwrap panics and the guard is dropped at once

Acquire(t, next) ==
    /\ lock = NoThread
    /\ IF poisoned
       THEN /\ th' = [th EXCEPT ![t] = Finish(th[t], Panic)]
            /\ lock' = lock
       ELSE /\ th' = [th EXCEPT ![t].pc = next]
            /\ lock' = t
    /\ UNCHANGED <<FEE_CACHE, poisoned, firstFee>>

----------------------------------------------------------------------------
\* calculate_fee (lib.rs:16-53), for a call of its own and for the two legs
\* of calculate_total_cost and find_arb

\* lib.rs:18-25
CfValidate(t) ==
    /\ th[t].pc = "cf_validate"
    /\ LET r == th[t]
       IN  IF OutOfRange(r.price)
           THEN /\ th' = [th EXCEPT ![t] = AfterFee(r, Err(r.price))]
                /\ firstFee' = Record(r.price, Err(r.price))
           ELSE /\ th' = [th EXCEPT ![t] = [r EXCEPT
                                     !.cache_key = CacheKey(r.price),
                                     !.pc = "cf_lock1"]]
                /\ firstFee' = firstFee
    /\ UNCHANGED <<FEE_CACHE, lock, poisoned>>

\* lib.rs:29
CfLock1(t) ==
    /\ th[t].pc = "cf_lock1"
    /\ Acquire(t, "cf_check")

\* (mutant) the early return on a hit keeps the guard
CfCheckKeepLock(t) ==
    /\ th[t].pc = "cf_check"
    /\ lock = t
    /\ LET r == th[t]
           cache == IF FEE_CACHE.is_some THEN FEE_CACHE ELSE CacheSome({})
       IN  /\ FEE_CACHE' = cache
           /\ IF r.cache_key \in MapKeys(cache.map)
              THEN LET res == Ok(<<MapGet(cache.map, r.cache_key)>>)
                   IN  /\ th' = [th EXCEPT ![t] = AfterFee(r, res)]
                       /\ firstFee' = Record(r.price, res)
                       /\ lock' = lock
              ELSE /\ th' = [th EXCEPT ![t].pc = "cf_compute"]
                   /\ firstFee' = firstFee
                   /\ lock' = NoThread
    /\ UNCHANGED poisoned

\* lib.rs:30-37  lazy initialisation, lookup, return on a hit; the guard is
\* dropped on both ways out of the block
CfCheck(t) ==
    /\ th[t].pc = "cf_check"
    /\ lock = t
    /\ LET r == th[t]
           cache == IF FEE_CACHE.is_some THEN FEE_CACHE ELSE CacheSome({})
       IN  /\ FEE_CACHE' = cache
           /\ IF r.cache_key \in MapKeys(cache.map)
              THEN LET res == Ok(<<MapGet(cache.map, r.cache_key)>>)
                   IN  /\ th' = [th EXCEPT ![t] = AfterFee(r, res)]
                       /\ firstFee' = Record(r.price, res)
              ELSE /\ th' = [th EXCEPT ![t].pc = "cf_compute"]
                   /\ firstFee' = firstFee
    /\ lock' = NoThread
    /\ UNCHANGED poisoned

\* lib.rs:43-44
CfCompute(t) ==
    /\ th[t].pc = "cf_compute"
    /\ th' = [th EXCEPT ![t] = [th[t] EXCEPT !.fee = Fee(th[t].price),
                                             !.pc = "cf_lock2"]]
    /\ UNCHANGED <<FEE_CACHE, lock, poisoned, firstFee>>

\* lib.rs:48
CfLock2(t) ==
    /\ th[t].pc = "cf_lock2"
    /\ Acquire(t, "cf_insert")

\* lib.rs:49-52  as_mut().unwrap() panics on None, which poisons the mutex
CfInsert(t) ==
    /\ th[t].pc = "cf_insert"
    /\ lock = t
    /\ LET r == th[t]
       IN  IF FEE_CACHE.is_some
           THEN LET res == Ok(<<r.fee>>)
                IN  /\ FEE_CACHE' = CacheSome(MapInsert(FEE_CACHE.map,
                                                        r.cache_key, r.fee))
                    /\ th' = [th EXCEPT ![t] = AfterFee(r, res)]
                    /\ firstFee' = Record(r.price, res)
                    /\ poisoned' = poisoned
           ELSE /\ th' = [th EXCEPT ![t] = Finish(r, Panic)]
                /\ poisoned' = TRUE
                /\ UNCHANGED <<FEE_CACHE, firstFee>>
    /\ lock' = NoThread

----------------------------------------------------------------------------
\* find_arb up to its first fee (lib.rs:90-98)

FaParse(t) ==
    /\ th[t].pc = "fa_parse"
    /\ LET r == th[t]
           v == ParseJson(Orderbooks[r.orderbook_json])
           yes_price == AskPrice(v, 0)
           no_price == AskPrice(v, 1)
       IN  th' = [th EXCEPT ![t] = [r EXCEPT !.yes_price = yes_price,
                                             !.no_price = no_price,
                                             !.price = yes_price,
                                             !.pc = "cf_validate"]]
    /\ UNCHANGED <<FEE_CACHE, lock, poisoned, firstFee>>

----------------------------------------------------------------------------
\* clear_fee_cache (lib.rs:70-76)

ClLock(t) ==
    /\ th[t].pc = "cl_lock"
    /\ Acquire(t, "cl_clear")

\* (mutant) the clear works on a copy of the map
ClClearCopy(t) ==
    /\ th[t].pc = "cl_clear"
    /\ lock = t
    /\ th' = [th EXCEPT ![t] = Finish(th[t], Ok(<< >>))]
    /\ firstFee' = [p \in {} |-> 0]
    /\ lock' = NoThread
    /\ UNCHANGED <<FEE_CACHE, poisoned>>

\* (mutant) the clear drops the map itself
ClClearTake(t) ==
    /\ th[t].pc = "cl_clear"
    /\ lock = t
    /\ FEE_CACHE' = CacheNone
    /\ th' = [th EXCEPT ![t] = Finish(th[t], Ok(<< >>))]
    /\ firstFee' = [p \in {} |-> 0]
    /\ lock' = NoThread
    /\ UNCHANGED poisoned

\* lib.rs:72-75  a cache that is None stays None
ClClear(t) ==
    /\ th[t].pc = "cl_clear"
    /\ lock = t
    /\ FEE_CACHE' = IF FEE_CACHE.is_some THEN CacheSome({}) ELSE FEE_CACHE
    /\ th' = [th EXCEPT ![t] = Finish(th[t], Ok(<< >>))]
    /\ firstFee' = [p \in {} |-> 0]
    /\ lock' = NoThread
    /\ UNCHANGED poisoned

----------------------------------------------------------------------------
\* get_cache_size (lib.rs:80-83)

GsLock(t) ==
    /\ th[t].pc = "gs_lock"
    /\ Acquire(t, "gs_len")

\* (mutant) the size is taken after the lazy initialisation of calculate_fee
GsLenInit(t) ==
    /\ th[t].pc = "gs_len"
    /\ lock = t
    /\ FEE_CACHE' = IF FEE_CACHE.is_some THEN FEE_CACHE ELSE CacheSome({})
    /\ th' = [th EXCEPT ![t] = Finish(th[t],
                                      Ok(<<Cardinality(FEE_CACHE.map)>>))]
    /\ lock' = NoThread
    /\ UNCHANGED <<poisoned, firstFee>>

\* lib.rs:82  map_or(0, |c| c.len())
GsLen(t) ==
    /\ th[t].pc = "gs_len"
    /\ lock = t
    /\ LET len == IF FEE_CACHE.is_some THEN Cardinality(FEE_CACHE.map) ELSE 0
       IN  th' = [th EXCEPT ![t] = Finish(th[t], Ok(<<len>>))]
    /\ lock' = NoThread
    /\ UNCHANGED <<FEE_CACHE, poisoned, firstFee>>

----------------------------------------------------------------------------
\* two callers side by side
Next ==
    \E t \in Threads :
        \/ CallCalculateFee(t, SharedFeePrices)
        \/ CallCalculateTotalCost(t, SharedCostPairs)
        \/ CallFindArb(t, SharedArbInputs)
        \/ CallClearFeeCache(t)
        \/ CallGetCacheSize(t)
        \/ CfValidate(t)
        \/ CfLock1(t)
        \/ CfCheck(t)
        \/ CfCompute(t)
        \/ CfLock2(t)
        \/ CfInsert(t)
        \/ FaParse(t)
        \/ ClLock(t)
        \/ ClClear(t)
        \/ GsLock(t)
        \/ GsLen(t)

Spec == Init /\ [][Next]_vars

\* the steps of a call that thread t has started
Step(t) ==
    \/ CfValidate(t) \/ CfLock1(t) \/ CfCheck(t) \/ CfCompute(t)
    \/ CfLock2(t) \/ CfInsert(t) \/ FaParse(t)
    \/ ClLock(t) \/ ClClear(t) \/ GsLock(t) \/ GsLen(t)

\* FEE_CACHE.lock() of thread t
LockStep(t) == CfLock1(t) \/ CfLock2(t) \/ ClLock(t) \/ GsLock(t)

\* a thread that can go on does go on: the scheduler runs every runnable
\* thread, and a thread waiting for a mutex that stays free gets it.
\* std::sync::Mutex promises no order among waiters, so nothing stronger is
\* assumed of the lock; nothing is assumed of the callers starting calls
FairSpec == Spec /\ \A t \in Threads : WF_vars(Step(t))

\* one caller, one call after the other, over all the inputs
SeqNext ==
    \E t \in {1} :
        \/ CallCalculateFee(t, FeePrices)
        \/ CallCalculateTotalCost(t, CostPairs)
        \/ CallFindArb(t, ArbInputs)
        \/ CallClearFeeCache(t)
        \/ CallGetCacheSize(t)
        \/ CfValidate(t)
        \/ CfLock1(t)
        \/ CfCheck(t)
        \/ CfCompute(t)
        \/ CfLock2(t)
        \/ CfInsert(t)
        \/ FaParse(t)
        \/ ClLock(t)
        \/ ClClear(t)
        \/ GsLock(t)
        \/ GsLen(t)

SeqSpec == Init /\ [][SeqNext]_vars

\* two callers of calculate_fee and clear_fee_cache over neighbouring prices
GridNext ==
    \E t \in Threads :
        \/ CallCalculateFee(t, GridPrices)
        \/ CallClearFeeCache(t)
        \/ CfValidate(t)
        \/ CfLock1(t)
        \/ CfCheck(t)
        \/ CfCompute(t)
        \/ CfLock2(t)
        \/ CfInsert(t)
        \/ ClLock(t)
        \/ ClClear(t)

GridSpec == Init /\ [][GridNext]_vars

----------------------------------------------------------------------------
\* Vocabulary of the properties

\* thread t is back from a call of op
Returned(t, op) == th[t].pc = "idle" /\ th[t].op = op

\* a price in [0, 1]
InRange(p) == p # NaN /\ 0 <= p /\ p <= Unit

\* a number below 0 or above 1
Outside(p) == p # NaN /\ (p < 0 \/ p > Unit)

\* what the text of find_arb input d holds at rewards[i].price
RawPrice(d, i) ==
    Field(Item(Field(ParseJson(Orderbooks[d]), "rewards"), i), "price")

\* the text gives no number for leg i (not JSON, field absent, not numeric)
Missing(d, i) == RawPrice(d, i).t # "num"

\* the text gives a number outside [0, 1] for leg i
Escapes(d, i) == RawPrice(d, i).t = "num" /\ Outside(RawPrice(d, i).n)

----------------------------------------------------------------------------
\* C1. Cache transparency: whatever calls came before, calculate_fee(p) for
\* p in [0, 1] returns exactly max(0.001, 0.03 * (1 - |2p - 1|)) evaluated
\* at p, also when an earlier call used another price with the same key.
\* The code returns the fee of the earlier price.
C1_CacheTransparent ==
    \A t \in Threads :
        (Returned(t, "calculate_fee") /\ InRange(th[t].price))
            => th[t].ret = Ok(<<Fee(th[t].price)>>)

\* C2. Once a fee is stored under a cache key, no later insertion replaces
\* it with a different value: the value of a key does not change while the
\* key stays in the cache.  Two callers that both miss on the same key and
\* hold different prices insert one after the other.
C2_NeverOverwritten ==
    [][\A k \in MapKeys(FEE_CACHE.map) \cap MapKeys(FEE_CACHE'.map) :
          MapGet(FEE_CACHE'.map, k) = MapGet(FEE_CACHE.map, k)]_vars

\* C3. No update is lost under concurrency: of the calculate_fee calls that
\* returned a fee since the cache was last cleared, every key is in the
\* cache, mapped to the fee one of the callers of that key computed, and the
\* size of the cache is the number of distinct keys; in particular once all
\* calls have returned.
C3_NoLostUpdate ==
    LET callers == DOMAIN firstFee
        keys == {CacheKey(p) : p \in callers}
        size == IF FEE_CACHE.is_some THEN Cardinality(FEE_CACHE.map) ELSE 0
    IN  /\ keys = MapKeys(FEE_CACHE.map)
        /\ size = Cardinality(keys)
        /\ \A e \in FEE_CACHE.map :
              \E p \in callers :
                  /\ CacheKey(p) = e[1]
                  /\ e[2] = IF p = NaN THEN Unit \div 10
                            ELSE Max(Unit \div 10, 3 * (Unit - Abs(2 * p - Unit)))

\* C3 witness: both callers are back from calculate_fee for two prices of
\* one key, each with the fee it computed itself (both missed, both
\* inserted), and the key is in the cache.
C3_Witness ==
    /\ Returned(1, "calculate_fee") /\ Returned(2, "calculate_fee")
    /\ th[1].ret.status = "ok" /\ th[2].ret.status = "ok"
    /\ th[1].price # th[2].price
    /\ CacheKey(th[1].price) = CacheKey(th[2].price)
    /\ th[1].ret # th[2].ret
    /\ CacheKey(th[1].price) \in MapKeys(FEE_CACHE.map)

\* C4. For every price p in [0, 1] and every cache state, calculate_fee(p)
\* succeeds and returns a fee f with 0.001 <= f <= 0.03.
C4_FeeInBounds ==
    \A t \in Threads :
        (Returned(t, "calculate_fee") /\ InRange(th[t].price))
            => /\ th[t].ret.status = "ok"
               /\ Unit \div 10 <= th[t].ret.val[1]
               /\ th[t].ret.val[1] <= 3 * Unit

\* C4 witness: calculate_fee(1.0) returned the floor 0.001 and
\* calculate_fee(0.5) has been answered with a fee in the cache.
C4_Witness ==
    /\ Returned(1, "calculate_fee")
    /\ th[1].price = Unit
    /\ th[1].ret = Ok(<<Unit \div 10>>)
    /\ \E e \in FEE_CACHE.map : e[1] = KeyScale \div 2

\* C5. For every price p < 0 or p > 1, calculate_fee(p) fails with
\* OutOfRange (naming p), returns no fee, and leaves the cache as it was:
\* nothing inserted, and a cache that is not initialised stays so.
C5_OutOfRangeFails ==
    [][\A t \in Threads :
          (/\ th[t].pc = "cf_validate"
           /\ Outside(th[t].price)
           /\ th'[t] # th[t])
              => /\ th'[t].pc = "idle"
                 /\ th'[t].ret = Err(th[t].price)
                 /\ FEE_CACHE' = FEE_CACHE]_vars

\* C5 witness: calculate_fee(1.1) has failed and the cache is still not
\* initialised.
C5_Witness ==
    /\ Returned(1, "calculate_fee")
    /\ th[1].price = Unit + (Unit \div 10)
    /\ th[1].ret = Err(th[1].price)
    /\ ~FEE_CACHE.is_some

\* C6. A malformed snapshot is never reported as arbitrage: for
\* min_profit >= 0, when the text is not JSON or rewards[0].price or
\* rewards[1].price is absent or not a number, the missing price is taken as
\* 1.0 and find_arb does not return found = true; with both missing it
\* returns (false, 0.0, 0.0).
C6_MalformedNeverArb ==
    \A t \in Threads :
        LET r == th[t]
            d == r.orderbook_json
        IN  (/\ Returned(t, "find_arb")
             /\ r.min_profit >= 0
             /\ (Missing(d, 0) \/ Missing(d, 1)))
                => /\ Missing(d, 0) => r.yes_price = Unit
                   /\ Missing(d, 1) => r.no_price = Unit
                   /\ r.ret.status = "ok" => r.ret.val[1] = FALSE
                   /\ (Missing(d, 0) /\ Missing(d, 1))
                         => r.ret = Ok(<<FALSE, 0, 0>>)

\* C6 witness: find_arb is back with (false, 0.0, 0.0) from a text whose yes
\* price is a string and whose no price is 0.40.
C6_Witness ==
    /\ Returned(1, "find_arb")
    /\ th[1].orderbook_json = 5
    /\ th[1].yes_price = Unit
    /\ th[1].no_price = (2 * Unit) \div 5
    /\ th[1].ret = Ok(<<FALSE, 0, 0>>)

\* C7. Decision rule: with yes, no in [0, 1] and the fees calculate_fee
\* returned, find_arb returns (true, yes, no) exactly when
\* yes + no + yes * fee_yes + no * fee_no < 1.0 - min_profit and
\* (false, 0.0, 0.0) otherwise; (0.40, 0.55) is found at min_profit 0.0 and
\* not at 0.05, (0.50, 0.50) is not found at 0.0.
C7_DecisionRule ==
    \A t \in Threads :
        LET r == th[t]
            cost == TotalCost(r.yes_price, r.no_price, r.yes_fee, r.no_fee)
            below == cost[1] < Unit - r.min_profit
        IN  (Returned(t, "find_arb") /\ r.ret.status = "ok")
                => /\ r.ret.val = IF below
                                  THEN <<TRUE, r.yes_price, r.no_price>>
                                  ELSE <<FALSE, 0, 0>>
                   /\ (r.orderbook_json = 1 /\ r.min_profit = 0)
                         => r.ret.val = <<TRUE, (2 * Unit) \div 5,
                                                (11 * Unit) \div 20>>
                   /\ (r.orderbook_json = 1 /\ r.min_profit = Unit \div 20)
                         => r.ret.val = <<FALSE, 0, 0>>
                   /\ (r.orderbook_json = 2 /\ r.min_profit = 0)
                         => r.ret.val = <<FALSE, 0, 0>>

\* C7 witness: find_arb is back with (true, 0.40, 0.55) at min_profit 0.0.
C7_Witness ==
    /\ Returned(1, "find_arb")
    /\ th[1].min_profit = 0
    /\ th[1].ret = Ok(<<TRUE, (2 * Unit) \div 5, (11 * Unit) \div 20>>)

\* C8. find_arb does not swallow OutOfRange: it fails, whatever min_profit
\* is, exactly when the text gives a number outside [0, 1] for the yes or
\* the no price; a text that is not JSON or lacks a price never fails.
C8_ArbFailsIffEscapes ==
    \A t \in Threads :
        LET r == th[t]
            d == r.orderbook_json
        IN  Returned(t, "find_arb")
                => /\ r.ret.status \in {"ok", "err"}
                   /\ r.ret.status = "err" <=> (Escapes(d, 0) \/ Escapes(d, 1))

\* C8 witness: find_arb has failed on the no price -0.2 of a text whose yes
\* price is missing.
C8_Witness ==
    /\ Returned(1, "find_arb")
    /\ th[1].orderbook_json = 8
    /\ th[1].yes_price = Unit
    /\ th[1].ret = Err(0 - (Unit \div 5))

\* C9. calculate_total_cost(yes, no) with yes, no in [0, 1] returns
\* (yes_fee, no_fee, total_cost) with the two fees calculate_fee returned
\* and total_cost = yes + no + yes * yes_fee + no * no_fee, so that
\* (0.5, 0.5) gives (0.03, 0.03, 1.03); with a price outside [0, 1] it
\* fails.  The code gives other fees for (0.5, 0.5) when the key of 0.5
\* holds the fee of a neighbouring price (C1).
C9_TotalCost ==
    \A t \in Threads :
        LET r == th[t]
        IN  Returned(t, "calculate_total_cost")
                => /\ (InRange(r.yes_price) /\ InRange(r.no_price))
                         => r.ret = Ok(<<r.yes_fee, r.no_fee,
                                         TotalCost(r.yes_price, r.no_price,
                                                   r.yes_fee, r.no_fee)>>)
                   /\ (Outside(r.yes_price) \/ Outside(r.no_price))
                         => r.ret.status = "err"
                   /\ (r.yes_price = Unit \div 2 /\ r.no_price = Unit \div 2)
                         => r.ret = Ok(<<3 * Unit, 3 * Unit,
                                         <<(103 * Unit) \div 100, 0>> >>)

\* C10. Idempotence of lookups: while the cache is not cleared, every
\* repetition of calculate_fee(p), p in [0, 1], returns the fee the first
\* call returned, and adds no entry.  In the code a second caller's
\* insertion under the same key (C2) changes what the repetition returns.
C10_Idempotent ==
    [][\A t \in Threads :
          (/\ th[t].pc # "idle"
           /\ th[t].op = "calculate_fee"
           /\ th'[t].pc = "idle"
           /\ th'[t].ret.status = "ok"
           /\ InRange(th[t].price)
           /\ th[t].price \in DOMAIN firstFee)
              => /\ th'[t].ret.val[1] = firstFee[th[t].price]
                 /\ MapKeys(FEE_CACHE'.map) = MapKeys(FEE_CACHE.map)]_vars


----------------------------------------------------------------------------
\* k is p * 1,000,000 rounded to the nearest integer, halves upwards
Nearest(k, p) ==
    2 * (k * SubUnits - p) <= SubUnits /\ 2 * (p - k * SubUnits) < SubUnits

\* p and q differ by less than 5e-7
Within5e7(p, q) == 2 * (p - q) < SubUnits /\ 2 * (q - p) < SubUnits

\* C11 as stated. Key quantization: any two prices in [0, 1] that differ by
\* less than 5e-7 map to the same cache key, and therefore calculate_fee
\* returns the identical fee for both: when q has been answered since the
\* last clear, the key of a p within 5e-7 of q is cached and the call for p
\* returns what the call for q returned.
C11_NearbySameKey ==
    [][\A t \in Threads : \A q \in DOMAIN firstFee :
          (/\ th[t].op = "calculate_fee"
           /\ InRange(th[t].price) /\ InRange(q)
           /\ Within5e7(th[t].price, q))
              => /\ (th[t].pc = "cf_validate" /\ th'[t].pc = "cf_lock1")
                       => th'[t].cache_key \in MapKeys(FEE_CACHE.map)
                 /\ (th[t].pc # "idle" /\ th'[t].pc = "idle"
                        /\ th'[t].ret.status = "ok")
                       => th'[t].ret.val[1] = firstFee[q]]_vars

\* C11 as amended. The cache key of p in [0, 1] is p * 1,000,000 rounded to
\* the nearest integer (so two prices have the same key exactly when they
\* round to the same multiple of 1e-6), and a calculate_fee that finds its
\* key cached returns the fee stored under that key unchanged, whichever
\* price stored it.
C11_KeyIsNearest ==
    [][\A t \in Threads :
          (th[t].op = "calculate_fee" /\ InRange(th[t].price))
              => /\ (th[t].pc = "cf_validate" /\ th'[t].pc # "cf_validate")
                       => /\ th'[t].pc = "cf_lock1"
                          /\ Nearest(th'[t].cache_key, th[t].price)
                 /\ (th[t].pc = "cf_check" /\ th'[t].pc = "idle")
                       => \E e \in FEE_CACHE.map :
                             /\ Nearest(e[1], th[t].price)
                             /\ th'[t].ret = Ok(<<e[2]>>)]_vars

\* C11 witness: calculate_fee(0.50000025) has been answered 0.03, the fee
\* stored under 500000 by calculate_fee(0.5), and 0.5000005 has key 500001.
C11_Witness ==
    /\ Returned(1, "calculate_fee")
    /\ th[1].price = Unit \div 2 + 1
    /\ th[1].ret = Ok(<<3 * Unit>>)
    /\ Unit \div 2 \in DOMAIN firstFee
    /\ \E e \in FEE_CACHE.map : e[1] = KeyScale \div 2 + 1


----------------------------------------------------------------------------
\* max(0.001, 0.03 * (1 - |2p - 1|)) written out, in fee units
Formula(p) ==
    IF p = NaN THEN Unit \div 10
    ELSE LET c == IF 2 * p - Unit < 0 THEN Unit - 2 * p ELSE 2 * p - Unit
             f == 3 * (Unit - c)
         IN  IF f < Unit \div 10 THEN Unit \div 10 ELSE f

\* thread t takes a step from pc at
Leaves(t, at) == th[t].pc = at /\ th'[t] # th[t]

\* C12. clear_fee_cache always succeeds and empties the mapping, from a
\* populated, an empty and a never initialised cache (which stays so); a
\* get_cache_size with no insertion since the clear returns 0, and the next
\* calculate_fee misses, computes the fee again and inserts it.
C12_ClearEmpties ==
    [][\A t \in Threads :
          /\ Leaves(t, "cl_lock") => th'[t].pc = "cl_clear"
          /\ Leaves(t, "cl_clear")
                => /\ th'[t].pc = "idle"
                   /\ th'[t].ret = Ok(<< >>)
                   /\ FEE_CACHE'.map = {}
                   /\ FEE_CACHE'.is_some = FEE_CACHE.is_some
          /\ (Leaves(t, "gs_len") /\ DOMAIN firstFee = {})
                => th'[t].ret = Ok(<<0>>)
          /\ (Leaves(t, "cf_check") /\ DOMAIN firstFee = {})
                => th'[t].pc = "cf_compute"
          /\ Leaves(t, "cf_insert")
                => <<th[t].cache_key, Formula(th[t].price)>> \in FEE_CACHE'.map
      ]_vars

\* C12 witness: one caller is back from clear_fee_cache, the mapping is
\* initialised and empty, no fee has been returned since, and the other
\* caller is back from get_cache_size with 0.
C12_Witness ==
    /\ Returned(1, "clear_fee_cache")
    /\ th[1].ret = Ok(<< >>)
    /\ FEE_CACHE = CacheSome({})
    /\ DOMAIN firstFee = {}
    /\ Returned(2, "get_cache_size")
    /\ th[2].ret = Ok(<<0>>)


\* C13. get_cache_size is a pure observation: it returns the number of
\* entries of the mapping (0 when the cache was never initialised), never
\* fails, and leaves the cache as it is: nothing inserted, no fee computed,
\* an uninitialised cache not initialised.
C13_SizeObserves ==
    [][\A t \in Threads :
          (th[t].op = "get_cache_size" /\ th'[t] # th[t])
              => /\ FEE_CACHE' = FEE_CACHE
                 /\ firstFee' = firstFee
                 /\ th[t].pc = "gs_lock" => th'[t].pc = "gs_len"
                 /\ th[t].pc = "gs_len"
                       => /\ th'[t].pc = "idle"
                          /\ th'[t].ret =
                                Ok(<<IF FEE_CACHE.is_some
                                     THEN Cardinality(MapKeys(FEE_CACHE.map))
                                     ELSE 0>>)]_vars

\* C13 witness: get_cache_size is back with 0 from a cache that is still
\* not initialised, while the other caller has a call under way.
C13_Witness ==
    /\ Returned(1, "get_cache_size")
    /\ th[1].ret = Ok(<<0>>)
    /\ ~FEE_CACHE.is_some
    /\ th[2].pc = "cf_lock1"


\* 1e-9 in fee units
Tolerance == Unit \div (10 * KeyScale)

\* C14. Symmetry: for every price p in [0, 1] and every cache state,
\* calculate_fee(p) and calculate_fee(1 - p) return the same fee within
\* 1e-9: of the fees returned since the last clear, those of p and of 1 - p
\* differ by at most 1e-9.  In the code the key of p may hold the fee of a
\* neighbouring price (C1) while 1 - p is computed afresh.
C14_Symmetric ==
    \A p \in DOMAIN firstFee :
        (InRange(p) /\ Unit - p \in DOMAIN firstFee)
            => /\ firstFee[p] - firstFee[Unit - p] <= Tolerance
               /\ firstFee[Unit - p] - firstFee[p] <= Tolerance


\* C15. On a cache miss for a price p in [0, 1], calculate_fee computes
\* max(0.001, 0.03 * (1 - |2p - 1|)), stores exactly that value under the
\* quantized key of p and returns it unrounded; on an empty cache this gives
\* 0.03 at 0.5, 0.001 at 0.0 and at 1.0, and a fee that decreases linearly
\* from 0.5 towards either extreme until the floor.
C15_MissComputesStoresReturns ==
    [][\A t \in Threads :
          LET p == th[t].price
          IN  /\ (Leaves(t, "cf_compute") /\ InRange(p))
                    => /\ th'[t].fee = Formula(p)
                       /\ th'[t].pc = "cf_lock2"
                       /\ FEE_CACHE' = FEE_CACHE
              /\ (Leaves(t, "cf_insert") /\ InRange(p))
                    => /\ FEE_CACHE'.is_some
                       /\ \E k \in MapKeys(FEE_CACHE'.map) :
                             /\ Nearest(k, p)
                             /\ MapGet(FEE_CACHE'.map, k) = Formula(p)
                       /\ th[t].op = "calculate_fee"
                             => th'[t].ret = Ok(<<Formula(p)>>)
                       /\ (p = Unit \div 2 /\ th[t].op = "calculate_fee")
                             => th'[t].ret = Ok(<<3 * Unit>>)
                       /\ (p \in {0, Unit} /\ th[t].op = "calculate_fee")
                             => th'[t].ret = Ok(<<Unit \div 10>>)]_vars

\* misses at 0.0, 0.5 and 1.0 stored 0.001, 0.03 and 0.001, and the miss at
\* 0.6 has just returned 0.024
C15_Witness ==
    /\ Returned(1, "calculate_fee")
    /\ th[1].price = (3 * Unit) \div 5
    /\ th[1].ret = Ok(<<(12 * Unit) \div 5>>)
    /\ {<<0, Unit \div 10>>, <<KeyScale \div 2, 3 * Unit>>,
        <<KeyScale, Unit \div 10>>, <<(3 * KeyScale) \div 5, (12 * Unit) \div 5>>}
          \subseteq FEE_CACHE.map
    /\ 0 \in DOMAIN firstFee /\ Unit \in DOMAIN firstFee


\* find_arb has returned for the order book with yes ask 0.40 and no ask
\* 0.55 and min_profit 0.0, and no fee of another price has been handed out
\* since the last clear: both fees are those of an empty cache
ScenarioA(t) ==
    /\ Returned(t, "find_arb")
    /\ th[t].orderbook_json = 1
    /\ th[t].min_profit = 0
    /\ DOMAIN firstFee \subseteq {(2 * Unit) \div 5, (11 * Unit) \div 20}

\* 0.0001 in price units
Cent4 == Unit \div 10000

\* C16 as stated. Scenario A: the fee of each of the two sides is 0.024 and
\* the total cost is 0.9728 to four decimals, which is below 1.0, so
\* find_arb returns (true, 0.40, 0.55).
C16_ScenarioAStated ==
    \A t \in Threads :
        ScenarioA(t)
            => LET r == th[t]
                   total == TotalCost(r.yes_price, r.no_price,
                                      r.yes_fee, r.no_fee)
               IN  /\ r.yes_fee = (12 * Unit) \div 5
                   /\ r.no_fee = (12 * Unit) \div 5
                   /\ 2 * Abs(total[1] - 9728 * Cent4) <= Cent4
                   /\ r.ret = Ok(<<TRUE, (2 * Unit) \div 5, (11 * Unit) \div 20>>)

\* C16, amended. Scenario A: the fee of the yes side (0.40) is 0.024, the
\* fee of the no side (0.55) is 0.027, and the total cost is
\* 0.40 + 0.55 + 0.40 * 0.024 + 0.55 * 0.027 = 0.97445, which is below 1.0,
\* so find_arb with min_profit 0.0 returns (true, 0.40, 0.55).
C16_ScenarioA ==
    \A t \in Threads :
        ScenarioA(t)
            => LET r == th[t]
                   total == TotalCost(r.yes_price, r.no_price,
                                      r.yes_fee, r.no_fee)
               IN  /\ r.yes_fee = (12 * Unit) \div 5
                   /\ r.no_fee = (27 * Unit) \div 10
                   /\ total = <<97445 * (Unit \div 100000), 0>>
                   /\ total[1] < Unit
                   /\ r.ret = Ok(<<TRUE, (2 * Unit) \div 5, (11 * Unit) \div 20>>)

\* scenario A has returned true and the cache holds its two entries only
C16_Witness ==
    /\ ScenarioA(1)
    /\ DOMAIN firstFee = {(2 * Unit) \div 5, (11 * Unit) \div 20}
    /\ MapKeys(FEE_CACHE.map) = {(2 * KeyScale) \div 5, (11 * KeyScale) \div 20}
    /\ th[1].ret.val[1] = TRUE


\* C17. Lazy initialisation is guarded and one-way: the cache goes from
\* uninitialised to an empty mapping only in the lookup step of
\* calculate_fee, that step never replaces a mapping that holds entries, an
\* initialised cache never becomes uninitialised again (clear_fee_cache only
\* empties it), and the insertion step of calculate_fee always finds an
\* initialised mapping and never panics, also after a clear_fee_cache that
\* ran between the lookup and the insertion.
C17_LazyInitOneWay ==
    [][/\ FEE_CACHE.is_some => FEE_CACHE'.is_some
       /\ (~FEE_CACHE.is_some /\ FEE_CACHE'.is_some)
             => /\ FEE_CACHE'.map = {}
                /\ \E t \in Threads : Leaves(t, "cf_check")
       /\ \A t \in Threads :
             /\ (Leaves(t, "cf_check") /\ FEE_CACHE.is_some)
                   => FEE_CACHE' = FEE_CACHE
             /\ Leaves(t, "cf_insert")
                   => /\ FEE_CACHE.is_some
                      /\ th'[t].ret # Panic
                      /\ ~poisoned']_vars

\* thread 1 is about to insert into a mapping that thread 2's
\* clear_fee_cache has left initialised and empty
C17_Witness ==
    /\ th[1].pc = "cf_insert" /\ lock = 1
    /\ FEE_CACHE = CacheSome({})
    /\ Returned(2, "clear_fee_cache") /\ th[2].ret = Ok(<< >>)


\* C18. No partial success: a calculate_total_cost or find_arb call that
\* fails with OutOfRange (one of its legs is outside [0, 1]) leaves the fee
\* cache exactly as it was, with no entry added for the other leg: no step of
\* such a call changes the entries of the cache.  In the code the yes leg is looked up and
\* inserted before the no leg is validated.
C18_FailedCallLeavesCache ==
    [][\A t \in Threads :
          (/\ th[t].op \in {"calculate_total_cost", "find_arb"}
           /\ th[t].pc \notin {"idle", "fa_parse"}
           /\ Outside(th[t].yes_price) \/ Outside(th[t].no_price)
           /\ th'[t] # th[t])
              => FEE_CACHE'.map = FEE_CACHE.map]_vars


\* the places of a call at which its thread holds the guard of FEE_CACHE
Holding == {"cf_check", "cf_insert", "cl_clear", "gs_len"}

\* how far a call has come: the leg, then the place within calculate_fee
Rank(r) ==
    10 * r.leg
      + (CASE r.pc \in {"idle", "fa_parse"} -> 0
           [] r.pc \in {"cf_validate", "cl_lock", "gs_lock"} -> 1
           [] r.pc \in {"cf_lock1", "cl_clear", "gs_len"} -> 2
           [] r.pc = "cf_check" -> 3
           [] r.pc = "cf_compute" -> 4
           [] r.pc = "cf_lock2" -> 5
           [] r.pc = "cf_insert" -> 6)

\* the lock is held exactly inside the critical sections, so no operation
\* returns or fails holding it and none asks for it while holding it; and
\* every step of a call moves it forward or ends it, so nothing is retried
LockDiscipline ==
    /\ [](\A t \in Threads : lock = t <=> th[t].pc \in Holding)
    /\ [][\A t \in Threads :
             (th[t].pc # "idle" /\ th'[t] # th[t])
                 => \/ th'[t].pc = "idle"
                    \/ Rank(th'[t]) > Rank(th[t])]_vars

\* every started operation eventually returns
Terminates(t) == (th[t].pc # "idle") ~> (th[t].pc = "idle")

\* C19 as stated. Deadlock freedom and termination: under weak fairness of
\* the lock every started operation eventually returns; no operation returns
\* or fails while holding the cache lock, none acquires the lock while
\* holding it, and no retry loop exists.
C19_TerminatesWeak ==
    /\ LockDiscipline
    /\ \A t \in Threads : Terminates(t)

\* C19, amended. The same under strong fairness of the lock: a caller that
\* finds the lock free again and again eventually acquires it.
C19_Terminates ==
    /\ LockDiscipline
    /\ \A t \in Threads : SF_vars(LockStep(t)) => Terminates(t)

\* thread 1 waits for the lock that thread 2 holds in its early return path
C19_Witness ==
    /\ th[1].pc = "cf_lock2"
    /\ lock = 2 /\ th[2].pc = "cf_check"
    /\ th[2].cache_key \in MapKeys(FEE_CACHE.map)


\* C20. Cache content invariant: in every reachable state every entry
\* (k, f) of the fee cache has a key in 0..1,000,000 and a value
\* max(0.001, 0.03 * (1 - |2p - 1|)) for some price p in [0, 1] that was
\* passed to a successful calculate_fee and whose quantized key is k; every
\* cached fee lies in [0.001, 0.03] and there are at most 1,000,001 entries.
\* In the code NaN passes the range check and leaves (0, 0.001) behind.
C20_CacheContent ==
    /\ \A e \in FEE_CACHE.map :
          /\ e[1] \in 0..KeyScale
          /\ Unit \div 10 <= e[2] /\ e[2] <= 3 * Unit
          /\ \E p \in DOMAIN firstFee :
                InRange(p) /\ Nearest(e[1], p) /\ e[2] = Formula(p)
    /\ Cardinality(FEE_CACHE.map) <= KeyScale + 1

====
